---- MODULE Spec2Model ----
(***************************************************************************)
(* Model of the nostr_karma client (src/test.js): vote resolution          *)
(* (computeScore), the buffered feed (bufferIncoming, flushBufferToFeed,   *)
(* renderNote, publishNote) and per-post voting (sendVote).                *)
(***************************************************************************)
EXTENDS Integers, Sequences, FiniteSets, TLC

\* ------------------------------------------------------------------------
\* Bounds of the model
\* ------------------------------------------------------------------------
MaxVotes == 3
NumNotes == 4
MaxPublish == 1
MaxVoteCalls == 3

\* ------------------------------------------------------------------------
\* Vote events handed to computeScore
\* ------------------------------------------------------------------------
\* JavaScript values that have no TLA+ counterpart
NoTags == <<"undefined">>
NoPubkey == ""
NaN == 99

Voters == {"alice", "bob"}
VoteTimes == {10, 20}

\* tag arrays as sendVote writes them (src/test.js:388-394) and malformed ones
TagP == <<"p", "author">>
TagE == <<"e", "target">>
TagV(s) == <<"v", s>>
TagClient == <<"client", "nostr_karma_postvote">>

WellFormedTags == { <<TagP, TagE, TagV(s), TagClient>> : s \in {"1", "-1", "0"} }
MalformedTags ==
    { <<TagP, TagE, TagV("2"), TagClient>>,
      <<TagP, TagE, TagClient>>,
      <<TagE, TagV("1"), TagClient>>,
      <<TagP, TagV("-1"), TagClient>>,
      NoTags }

VoteEvents ==
    [pubkey : Voters, created_at : VoteTimes, tags : WellFormedTags \cup MalformedTags]
    \cup { [pubkey |-> NoPubkey, created_at |-> 20, tags |-> <<TagP, TagE, TagV("1"), TagClient>>] }

\* Number(string) for the strings that occur as a v value
Number(s) ==
    CASE s = "1" -> 1
      [] s = "-1" -> -1
      [] s = "0" -> 0
      [] s = "2" -> 2
      [] OTHER -> NaN

\* tags.find(t => t[0] === name): index of the first matching tag, 0 if none
RECURSIVE FindFrom(_, _, _)
FindFrom(tags, name, i) ==
    IF i > Len(tags) THEN 0
    ELSE IF tags[i][1] = name THEN i
    ELSE FindFrom(tags, name, i + 1)

FindTag(tags, name) == FindFrom(tags, name, 1)

\* [1, -1, 0].includes(sign)
SignAllowedNoZero(sign) == sign \in {1, -1}
SignAllowed(sign) == sign \in {1, -1, 0}

\* ev.created_at || 0: a missing created_at counts as 0, which is the value
\* 0 of the model
TsOf(ev) == IF ev.created_at = 0 THEN 0 ELSE ev.created_at

\* The body of the for loop of computeScore for an event that has a tags
\* array: the new latestByVoter map.
ApplyVoteLastWins(latest, ev) ==
    LET i == FindTag(ev.tags, "v") IN
    IF i = 0 THEN latest
    ELSE LET sign == Number(ev.tags[i][2]) IN
         IF ~SignAllowed(sign) THEN latest
         ELSE IF ev.pubkey = NoPubkey THEN latest
         ELSE [v \in (DOMAIN latest) \cup {ev.pubkey} |->
                  IF v = ev.pubkey THEN [ts |-> TsOf(ev), sign |-> sign] ELSE latest[v]]

ApplyVote(latest, ev) ==
    LET i == FindTag(ev.tags, "v") IN
    IF i = 0 THEN latest
    ELSE LET sign == Number(ev.tags[i][2]) IN
         IF ~SignAllowed(sign) THEN latest
         ELSE IF ev.pubkey = NoPubkey THEN latest
         ELSE IF ev.pubkey \notin DOMAIN latest \/ TsOf(ev) > latest[ev.pubkey].ts
              THEN [v \in (DOMAIN latest) \cup {ev.pubkey} |->
                      IF v = ev.pubkey THEN [ts |-> TsOf(ev), sign |-> sign] ELSE latest[v]]
              ELSE latest

EmptyMap == [v \in {} |-> 0]

\* the first loop of computeScore: the map after events i..Len, or "threw"
\* when ev.tags.find is called on an event without a tags array
RECURSIVE LatestLoop(_, _, _)
LatestLoop(events, i, latest) ==
    IF i > Len(events) THEN [threw |-> FALSE, latest |-> latest]
    ELSE IF events[i].tags = NoTags THEN [threw |-> TRUE, latest |-> latest]
    ELSE LatestLoop(events, i + 1, ApplyVote(latest, events[i]))

\* the second loop: score += sign over latestByVoter.values()
RECURSIVE SumSigns(_)
SumSigns(latest) ==
    IF DOMAIN latest = {} THEN 0
    ELSE LET v == CHOOSE x \in DOMAIN latest : TRUE
             rest == [w \in (DOMAIN latest) \ {v} |-> latest[w]]
         IN latest[v].sign + SumSigns(rest)

\* computeScore(voteEvents): [threw, latest, score]
computeScore(events) ==
    LET r == LatestLoop(events, 1, EmptyMap) IN
    [threw |-> r.threw, latest |-> r.latest,
     score |-> IF r.threw THEN 0 ELSE SumSigns(r.latest)]

VARIABLES
    voteEvents, scoreState, latestByVoter, score,
    relayStatus, relays, connectedRelays, connIdx,
    seenIds, buffer, feed, showNew,
    noteContent, publishDisabled, noteCalls, toast, alertMsg,
    nPublish, renderCount, lastFlush, everOffered, newSinceFlush, lastOffer,
    localVotes, voteCalls, voteLog, overlapped, nVotes, voteStyle, lastAccepted,
    hungRelays,
    mineIn, mineLead, nonce, mineState, mineOut, signCalls, tried,
    fetchState, fetchIdx, results, collectors, now, deliveries, eoseSeen, failedRelays

scoreVars == <<voteEvents, scoreState, latestByVoter, score>>
relayVars == <<relayStatus, relays, connectedRelays, connIdx>>
bufferVars == <<seenIds, buffer, showNew, everOffered, newSinceFlush, lastOffer>>
renderVars == <<feed, renderCount, lastFlush>>
noteVars == <<noteContent, publishDisabled, noteCalls, toast, alertMsg, nPublish>>
feedVars == <<bufferVars, renderVars, noteVars>>
voteVars == <<localVotes, voteCalls, voteLog, overlapped, nVotes, voteStyle, lastAccepted>>
mineVars == <<mineIn, mineLead, nonce, mineState, mineOut, signCalls, tried>>
fetchVars == <<fetchState, fetchIdx, results, collectors, now, deliveries, eoseSeen, failedRelays>>
restVars == <<hungRelays, mineVars, fetchVars>>
vars == <<scoreVars, relayVars, feedVars, voteVars, restVars>>

\* no call of mineAndFinish or fetchVotesForPost has been made and every
\* publish a relay is sent settles
InitMineIdle ==
    /\ mineIn = [tags |-> <<>>, powBits |-> 0, maxIters |-> 0]
    /\ mineLead = [n \in {} |-> 0]
    /\ nonce = 0
    /\ mineState = "idle"
    /\ mineOut = [tags |-> <<>>, lead |-> 0]
    /\ signCalls = 0
    /\ tried = <<>>

InitFetchIdle ==
    /\ fetchState = "idle"
    /\ fetchIdx = 0
    /\ results = <<>>
    /\ collectors = [i \in {} |-> 0]
    /\ now = 0
    /\ deliveries = [i \in {} |-> 0]
    /\ eoseSeen = {}
    /\ failedRelays = {}

InitRest == hungRelays = {} /\ InitMineIdle /\ InitFetchIdle

\* ------------------------------------------------------------------------
\* Relays (connectToRelays and the relay event handlers)
\* ------------------------------------------------------------------------
\* the first urls of connectToRelays, in its order
RelayUrls == <<"wss://relay.damus.io", "wss://nos.lol">>
Relays == { RelayUrls[i] : i \in 1..Len(RelayUrls) }

InitRelays ==
    /\ relayStatus = [r \in Relays |-> "new"]
    /\ relays = <<>>
    /\ connectedRelays = {}
    /\ connIdx = 1

\* await relay.connect() resolves: the 'connect' handler has run and the
\* relay is pushed to this.relays
ConnectOk ==
    /\ connIdx <= Len(RelayUrls)
    /\ relayStatus' = [relayStatus EXCEPT ![RelayUrls[connIdx]] = "open"]
    /\ connectedRelays' = connectedRelays \cup {RelayUrls[connIdx]}
    /\ relays' = Append(relays, RelayUrls[connIdx])
    /\ connIdx' = connIdx + 1

\* await relay.connect() rejects: the 'error' handler has run, the relay is
\* not pushed
ConnectFail ==
    /\ connIdx <= Len(RelayUrls)
    /\ relayStatus' = [relayStatus EXCEPT ![RelayUrls[connIdx]] = "closed"]
    /\ connectedRelays' = connectedRelays \ {RelayUrls[connIdx]}
    /\ connIdx' = connIdx + 1
    /\ UNCHANGED relays

\* relay.on('error'): the socket of a connected relay fails
RelayError(r) ==
    /\ relayStatus[r] = "open"
    /\ relayStatus' = [relayStatus EXCEPT ![r] = "closed"]
    /\ connectedRelays' = connectedRelays \ {r}
    /\ UNCHANGED <<relays, connIdx>>

\* the socket of a connected relay closes without an error event: no handler
\* is registered for it, connectedRelays keeps the url
RelayClose(r) ==
    /\ relayStatus[r] = "open"
    /\ relayStatus' = [relayStatus EXCEPT ![r] = "closed"]
    /\ UNCHANGED <<relays, connIdx, connectedRelays>>

\* r.status === 1
IsOpen(r) == relayStatus[r] = "open"

\* the relays publish is called on: relays.map(r => r.status === 1 && r.publish(ev))
PublishTargets == { relays[i] : i \in { j \in 1..Len(relays) : IsOpen(relays[j]) } }

\* ------------------------------------------------------------------------
\* Feed: bufferIncoming, flushBufferToFeed, renderNote, publishNote
\* ------------------------------------------------------------------------
NoId == 0
FeedLimit == 200

NoteIds == 1..NumNotes
\* the id of an event is the hash of its fields: an id determines created_at
CreatedAt(id) == id \div 2
NoteEvent(id) == [id |-> id, created_at |-> IF id = NoId THEN 0 ELSE CreatedAt(id)]

\* !ev?.id || this.seenIds.has(ev.id)
AlreadySeenNever(ev, seen) == ev.id = NoId
AlreadySeen(ev, seen) == ev.id = NoId \/ ev.id \in seen

\* (b.created_at || 0) - (a.created_at || 0) <= 0: a stays before b
KeepsBeforeAsc(a, b) == TsOf(a) <= TsOf(b)
KeepsBefore(a, b) == TsOf(b) - TsOf(a) <= 0

\* Array.prototype.sort is stable: x goes after the elements that stay before it
RECURSIVE PrefixLen(_, _, _)
PrefixLen(sorted, x, k) ==
    IF k < Len(sorted) /\ KeepsBefore(sorted[k + 1], x) THEN PrefixLen(sorted, x, k + 1) ELSE k

InsertSorted(sorted, x) ==
    LET k == PrefixLen(sorted, x, 0) IN
    SubSeq(sorted, 1, k) \o <<x>> \o SubSeq(sorted, k + 1, Len(sorted))

RECURSIVE SortFrom(_, _, _)
SortFrom(events, i, sorted) ==
    IF i > Len(events) THEN sorted
    ELSE SortFrom(events, i + 1, InsertSorted(sorted, events[i]))

\* this.buffer.sort((a, b) => (b.created_at || 0) - (a.created_at || 0))
SortBuffer(events) == SortFrom(events, 1, <<>>)

\* renderNote(ev, {toTop: true}): the feed (first child first) afterwards
RenderNote(f, ev) ==
    LET g == <<ev.id>> \o f IN
    IF Len(g) > FeedLimit THEN SubSeq(g, 1, FeedLimit) ELSE g

RECURSIVE RenderAll(_, _, _)
RenderAll(f, events, i) ==
    IF i > Len(events) THEN f
    ELSE RenderAll(RenderNote(f, events[i]), events, i + 1)

RECURSIVE CountAll(_, _, _)
CountAll(rc, events, i) ==
    IF i > Len(events) THEN rc
    ELSE CountAll([rc EXCEPT ![events[i].id] = @ + 1], events, i + 1)

InitFeed ==
    /\ seenIds = {}
    /\ buffer = <<>>
    /\ feed = <<>>
    /\ showNew = [visible |-> FALSE, count |-> 0]
    /\ noteContent = NoId
    /\ publishDisabled = FALSE
    /\ noteCalls = {}
    /\ toast = "none"
    /\ alertMsg = "none"
    /\ nPublish = 0
    /\ renderCount = [i \in NoteIds |-> 0]
    /\ lastFlush = <<>>
    /\ everOffered = {}
    /\ newSinceFlush = {}
    /\ lastOffer = [id |-> NoId, added |-> FALSE]

\* sub.on('event', ev => this.bufferIncoming(ev)) of an open relay
BufferIncoming(ev) ==
    /\ \E r \in Relays : IsOpen(r)
    /\ everOffered' = IF ev.id = NoId THEN everOffered ELSE everOffered \cup {ev.id}
    /\ newSinceFlush' = IF ev.id = NoId \/ ev.id \in seenIds THEN newSinceFlush ELSE newSinceFlush \cup {ev.id}
    /\ IF AlreadySeen(ev, seenIds)
       THEN /\ lastOffer' = [id |-> ev.id, added |-> FALSE]
            /\ UNCHANGED <<seenIds, buffer, showNew>>
       ELSE /\ lastOffer' = [id |-> ev.id, added |-> TRUE]
            /\ seenIds' = seenIds \cup {ev.id}
            /\ buffer' = Append(buffer, ev)
            /\ showNew' = [visible |-> TRUE, count |-> Len(buffer) + 1]
    /\ UNCHANGED <<renderVars, noteVars, relayVars, scoreVars, restVars, voteVars>>

\* the click on "Show new posts"
FlushBufferToFeed ==
    /\ IF buffer = <<>>
       THEN /\ lastFlush' = <<>>
            /\ UNCHANGED <<feed, renderCount, buffer, showNew, newSinceFlush>>
       ELSE LET sorted == SortBuffer(buffer) IN
            /\ feed' = RenderAll(feed, sorted, 1)
            /\ renderCount' = CountAll(renderCount, sorted, 1)
            /\ lastFlush' = sorted
            /\ buffer' = <<>>
            /\ showNew' = [visible |-> FALSE, count |-> 0]
            /\ newSinceFlush' = {}
    /\ UNCHANGED <<seenIds, everOffered, lastOffer, noteVars, relayVars, scoreVars, restVars, voteVars>>

\* the user types a note; the text and the clock decide the id of the event
TypeNote(id) ==
    /\ noteContent # id
    /\ noteContent' = id
    /\ UNCHANGED <<publishDisabled, noteCalls, toast, alertMsg, nPublish,
                   bufferVars, renderVars, relayVars, scoreVars, restVars, voteVars>>

\* publishNote with an empty text or with no connected relay: alert and return
PublishNoteRefused ==
    /\ noteContent = NoId \/ connectedRelays = {}
    /\ alertMsg' = IF noteContent = NoId THEN "Enter content" ELSE "Not connected to any relays"
    /\ UNCHANGED <<noteContent, publishDisabled, noteCalls, toast, nPublish,
                   bufferVars, renderVars, relayVars, scoreVars, restVars, voteVars>>

\* publishNote up to its await (the click, or Ctrl+Enter while a publish is
\* still in flight): sign, render at once, publish to the open relays
PublishNote ==
    /\ noteContent # NoId
    /\ connectedRelays # {}
    /\ nPublish < MaxPublish
    /\ nPublish' = nPublish + 1
    /\ publishDisabled' = TRUE
    /\ LET ev == NoteEvent(noteContent) IN
        /\ feed' = RenderNote(feed, ev)
        /\ renderCount' = [renderCount EXCEPT ![ev.id] = @ + 1]
        /\ noteCalls' = noteCalls \cup {[n |-> nPublish + 1, id |-> ev.id, sent |-> PublishTargets]}
    /\ UNCHANGED <<noteContent, toast, alertMsg, lastFlush, bufferVars, relayVars, scoreVars, restVars, voteVars>>

\* every publish promise has settled, fulfilled or rejected, and
\* Promise.allSettled resolves: the rest of publishNote and its finally block.
\* While the publish promise of one relay stays pending allSettled does not
\* resolve.
PublishNoteDone(c) ==
    /\ c \in noteCalls
    /\ c.sent \cap hungRelays = {}
    /\ noteCalls' = noteCalls \ {c}
    /\ noteContent' = NoId
    /\ toast' = "Note published"
    /\ publishDisabled' = FALSE
    /\ UNCHANGED <<alertMsg, nPublish, bufferVars, renderVars, relayVars, scoreVars, restVars, voteVars>>

RelayStep ==
    \/ ConnectOk
    \/ ConnectFail
    \/ \E r \in Relays : RelayError(r)
    \/ \E r \in Relays : RelayClose(r)

\* ------------------------------------------------------------------------
\* Voting: sendVote
\* ------------------------------------------------------------------------
\* this.localVotes = {}
InitVotes ==
    /\ localVotes = EmptyMap
    /\ voteCalls = {}
    /\ voteLog = [e \in NoteIds |-> <<>>]
    /\ overlapped = {}
    /\ nVotes = 0
    /\ voteStyle = EmptyMap
    /\ lastAccepted = {}

\* this.localVotes[eventIdHex] || 0
CurrentVote(ledger, eid) == IF eid \in DOMAIN ledger THEN ledger[eid] ELSE 0

\* toggle logic: clicking the same sign again clears the vote
NextVoteSignNoToggle(current, sign) == sign
NextVoteSign(current, sign) == IF current = sign THEN 0 ELSE sign

\* this.localVotes[eventIdHex] = finalSign
SetVote(ledger, eid, sign) ==
    [e \in (DOMAIN ledger) \cup {eid} |-> IF e = eid THEN sign ELSE ledger[e]]

\* the notes whose vote buttons are in the feed
Rendered == { feed[i] : i \in 1..Len(feed) }

\* sendVote up to its await: the click on a vote button of a rendered note;
\* the signed event carries ['v', String(finalSign)]
SendVote(eid, sign) ==
    /\ eid \in Rendered
    /\ nVotes < MaxVoteCalls
    /\ nVotes' = nVotes + 1
    /\ LET current == CurrentVote(localVotes, eid)
           finalSign == NextVoteSign(current, sign)
       IN /\ voteCalls' = voteCalls \cup
                {[n |-> nVotes + 1, eid |-> eid, sign |-> sign, finalSign |-> finalSign,
                  sent |-> PublishTargets]}
          /\ voteLog' = [voteLog EXCEPT ![eid] = Append(@, [sign |-> sign, finalSign |-> finalSign])]
    /\ overlapped' = IF \E c \in voteCalls : c.eid = eid THEN overlapped \cup {eid} ELSE overlapped
    /\ UNCHANGED <<localVotes, voteStyle, lastAccepted, relayVars, feedVars, scoreVars, restVars>>

ToastFor(finalSign) ==
    IF finalSign = 0 THEN "Vote cleared"
    ELSE IF finalSign > 0 THEN "Upvoted" ELSE "Downvoted"

\* every publish promise has settled (accepted: the relays whose promise was
\* fulfilled, the others rejected) and Promise.allSettled resolves: the rest
\* of the try block of sendVote
SendVoteDone(c, accepted) ==
    /\ c \in voteCalls
    /\ c.sent \cap hungRelays = {}
    /\ accepted \subseteq c.sent
    /\ lastAccepted' = accepted
    /\ voteCalls' = voteCalls \ {c}
    /\ localVotes' = SetVote(localVotes, c.eid, c.finalSign)
    /\ voteStyle' = SetVote(voteStyle, c.eid, c.finalSign)
    /\ toast' = ToastFor(c.finalSign)
    /\ UNCHANGED <<voteLog, overlapped, nVotes, relayVars, scoreVars, restVars, bufferVars, renderVars,
                   noteContent, publishDisabled, noteCalls, alertMsg, nPublish>>

InitScoreIdle ==
    /\ voteEvents = <<>>
    /\ scoreState = "idle"
    /\ latestByVoter = EmptyMap
    /\ score = 0

\* connectToRelays has connected every relay
InitRelaysOpen ==
    /\ relayStatus = [r \in Relays |-> "open"]
    /\ relays = RelayUrls
    /\ connectedRelays = Relays
    /\ connIdx = Len(RelayUrls) + 1

InitConnected == InitScoreIdle /\ InitRelaysOpen /\ InitFeed /\ InitVotes /\ InitRest

\* relay deliveries and flushes
NextBuffer ==
    \/ \E id \in NoteIds \cup {NoId} : BufferIncoming(NoteEvent(id))
    \/ FlushBufferToFeed

SpecBuffer == InitConnected /\ [][NextBuffer]_vars

\* relay deliveries, flushes and local note publishes
NextFeed ==
    \/ \E id \in NoteIds \cup {NoId} : BufferIncoming(NoteEvent(id))
    \/ FlushBufferToFeed
    \/ \E id \in NoteIds : TypeNote(id)
    \/ PublishNoteRefused
    \/ PublishNote
    \/ \E c \in noteCalls : PublishNoteDone(c)

SpecFeed == InitConnected /\ [][NextFeed]_vars

\* the feed after two notes were delivered and flushed
InitFeedShown ==
    LET delivered == <<NoteEvent(1), NoteEvent(2)>>
        sorted == SortBuffer(delivered)
    IN /\ seenIds = {1, 2}
       /\ buffer = <<>>
       /\ feed = RenderAll(<<>>, sorted, 1)
       /\ showNew = [visible |-> FALSE, count |-> 0]
       /\ noteContent = NoId
       /\ publishDisabled = FALSE
       /\ noteCalls = {}
       /\ toast = "none"
       /\ alertMsg = "none"
       /\ nPublish = 0
       /\ renderCount = CountAll([i \in NoteIds |-> 0], sorted, 1)
       /\ lastFlush = sorted
       /\ everOffered = {1, 2}
       /\ newSinceFlush = {}
       /\ lastOffer = [id |-> 2, added |-> TRUE]

\* connectToRelays has connected the first relay, which delivered the notes,
\* and is about to connect the next
InitRelaysFirstOpen ==
    /\ relayStatus = [r \in Relays |-> IF r = RelayUrls[1] THEN "open" ELSE "new"]
    /\ relays = <<RelayUrls[1]>>
    /\ connectedRelays = {RelayUrls[1]}
    /\ connIdx = 2

InitVoteSpec == InitScoreIdle /\ InitRelaysFirstOpen /\ InitFeedShown /\ InitVotes /\ InitRest

NextVote ==
    \/ RelayStep /\ UNCHANGED <<feedVars, scoreVars, restVars, voteVars>>
    \/ \E eid \in NoteIds : \E sign \in {1, -1} : SendVote(eid, sign)
    \/ \E c \in voteCalls : \E accepted \in SUBSET Relays : SendVoteDone(c, accepted)

SpecVote == InitVoteSpec /\ [][NextVote]_vars

\* ------------------------------------------------------------------------
\* computeScore as a run: the input is drawn, the function applied
\* ------------------------------------------------------------------------
InitScore ==
    /\ \E n \in 0..MaxVotes : voteEvents \in [1..n -> VoteEvents]
    /\ scoreState = "called"
    /\ latestByVoter = EmptyMap
    /\ score = 0
    /\ InitRelays
    /\ InitFeed
    /\ InitVotes
    /\ InitRest

\* computeScore runs to completion: it returns the score or throws
ComputeScoreReturn ==
    /\ scoreState = "called"
    /\ LET r == computeScore(voteEvents) IN
        /\ ~r.threw
        /\ scoreState' = "returned"
        /\ latestByVoter' = r.latest
        /\ score' = r.score
    /\ UNCHANGED <<voteEvents, relayVars, feedVars, voteVars, restVars>>

ComputeScoreThrow ==
    /\ scoreState = "called"
    /\ LET r == computeScore(voteEvents) IN
        /\ r.threw
        /\ scoreState' = "threw"
        /\ latestByVoter' = r.latest
        /\ score' = 0
    /\ UNCHANGED <<voteEvents, relayVars, feedVars, voteVars, restVars>>

NextScore == ComputeScoreReturn \/ ComputeScoreThrow

SpecScore == InitScore /\ [][NextScore]_vars

\* ------------------------------------------------------------------------
\* Proof of work: mineAndFinish
\* ------------------------------------------------------------------------
MaxIters == 3
MaxPowBits == 9
MaxLead == 2

\* the tags of the unsigned event: none, or those sendVote writes
MineTags == { <<>>, <<TagP, TagE, TagV("1"), TagClient>> }

\* ['nonce', String(nonce)]
NonceTag(n) == <<"nonce", ToString(n)>>

\* Math.max(0, Math.floor(powBits / 4))
Nibbles(powBits) == IF powBits \div 4 > 0 THEN powBits \div 4 ELSE 0

\* ev.id.startsWith('0'.repeat(nibbles)), for an id with lead leading zeros
StartsWithPrefixExact(lead, nibbles) == lead = nibbles
StartsWithPrefix(lead, nibbles) == lead >= nibbles

\* !nibbles || ev.id.startsWith(targetPrefix)
Accepts(nibbles, lead) == nibbles = 0 \/ StartsWithPrefix(lead, nibbles)

\* the payloads finishEvent may be given: the original one (-1) and the one
\* with the nonce tag n
Payloads == (-1)..(MaxIters - 1)

\* a call mineAndFinish(unsigned, sk, powBits, maxIters); mineLead is the
\* number of leading zero digits of the id finishEvent computes per payload
InitMineCall ==
    /\ InitScoreIdle /\ InitRelays /\ InitFeed /\ InitVotes
    /\ hungRelays = {} /\ InitFetchIdle
    /\ mineIn \in [tags : MineTags, powBits : 0..MaxPowBits, maxIters : 0..MaxIters]
    /\ mineLead \in [Payloads -> 0..MaxLead]
    /\ nonce = 0
    /\ mineState = "running"
    /\ mineOut = [tags |-> <<>>, lead |-> 0]
    /\ signCalls = 0
    /\ tried = <<>>

\* one pass of the while loop that returns ev
MineTryReturn ==
    /\ mineState = "running"
    /\ nonce < mineIn.maxIters
    /\ Accepts(Nibbles(mineIn.powBits), mineLead[nonce])
    /\ signCalls' = signCalls + 1
    /\ tried' = Append(tried, nonce)
    /\ mineOut' = [tags |-> mineIn.tags \o <<NonceTag(nonce)>>, lead |-> mineLead[nonce]]
    /\ mineState' = "returned"
    /\ UNCHANGED <<mineIn, mineLead, nonce,
                   scoreVars, relayVars, feedVars, voteVars, hungRelays, fetchVars>>

\* one pass of the while loop that ends with nonce++
MineTryNext ==
    /\ mineState = "running"
    /\ nonce < mineIn.maxIters
    /\ ~Accepts(Nibbles(mineIn.powBits), mineLead[nonce])
    /\ signCalls' = signCalls + 1
    /\ tried' = Append(tried, nonce)
    /\ nonce' = nonce + 1
    /\ UNCHANGED <<mineIn, mineLead, mineState, mineOut,
                   scoreVars, relayVars, feedVars, voteVars, hungRelays, fetchVars>>

\* the loop is over: return finishEvent(unsigned, sk)
MineFallback ==
    /\ mineState = "running"
    /\ nonce >= mineIn.maxIters
    /\ signCalls' = signCalls + 1
    /\ mineOut' = [tags |-> mineIn.tags, lead |-> mineLead[-1]]
    /\ mineState' = "returned"
    /\ UNCHANGED <<mineIn, mineLead, nonce, tried,
                   scoreVars, relayVars, feedVars, voteVars, hungRelays, fetchVars>>

NextMine ==
    \/ MineTryReturn
    \/ MineTryNext
    \/ MineFallback

SpecMine == InitMineCall /\ [][NextMine]_vars

\* ------------------------------------------------------------------------
\* Publishing to relays of which some never answer
\* ------------------------------------------------------------------------
\* the relays are connected, two notes are in the feed; hungRelays are the
\* relays whose publish promise never settles. The user votes on the last
\* note of the feed and writes one note.
InitPublish ==
    /\ InitScoreIdle /\ InitRelaysOpen /\ InitFeedShown /\ InitVotes
    /\ InitMineIdle /\ InitFetchIdle
    /\ hungRelays \in SUBSET Relays

NextPublish ==
    \/ \E r \in Relays : RelayError(r) /\ UNCHANGED <<feedVars, scoreVars, voteVars, restVars>>
    \/ \E r \in Relays : RelayClose(r) /\ UNCHANGED <<feedVars, scoreVars, voteVars, restVars>>
    \/ \E sign \in {1, -1} : SendVote(feed[Len(feed)], sign)
    \/ \E c \in voteCalls : \E accepted \in SUBSET Relays : SendVoteDone(c, accepted)
    \/ TypeNote(NumNotes)
    \/ PublishNoteRefused
    \/ PublishNote
    \/ \E c \in noteCalls : PublishNoteDone(c)

\* a publish promise that settles does so in finite time, and the
\* continuation after Promise.allSettled runs once it has resolved
SpecPublish ==
    /\ InitPublish
    /\ [][NextPublish]_vars
    /\ WF_vars(\E c \in voteCalls : \E accepted \in SUBSET Relays : SendVoteDone(c, accepted))
    /\ WF_vars(\E c \in noteCalls : PublishNoteDone(c))

\* ------------------------------------------------------------------------
\* Vote collection: fetchVotesForPost, collectFromRelay, updateScoreForPost
\* ------------------------------------------------------------------------
NumVoteIds == 2
TimeoutTicks == 2

VoteIds == 1..NumVoteIds

\* the vote event with a given id: votes with odd ids are alice's +1, votes
\* with even ids bob's -1
VoteOfId(id) ==
    [pubkey |-> IF id % 2 = 1 THEN "alice" ELSE "bob",
     created_at |-> 10,
     tags |-> <<TagP, TagE, TagV(IF id % 2 = 1 THEN "1" ELSE "-1"), TagClient>>]

\* the promise of collectFromRelay and what its closure holds, per position
\* in this.relays
NoCollector ==
    [state |-> "none", out |-> <<>>, startedAt |-> 0, deadline |-> 0,
     resolvedAt |-> 0, result |-> <<>>, subOpen |-> FALSE]

\* setTimeout(..., timeoutMs) armed at time t fires at
DeadlineEarly(t) == t
Deadline(t) == t + TimeoutTicks

\* the timer of a collector is due
TimerDueNever(c) == FALSE
TimerDue(c) == c.state = "pending" /\ now >= c.deadline

Range(q) == { q[i] : i \in 1..Len(q) }

\* out[ev.id] = ev: the keys of out in insertion order
Put(out, id) == IF id \in Range(out) THEN out ELSE Append(out, id)

\* Object.values(out)
ObjectValues(out) == out

\* sub.on('event', ev => { out[ev.id] = ev }): the array handed to resolve
\* is a copy, the handler writes to out alone
OnEventLive(c, id) ==
    [c EXCEPT !.out = Put(@, id),
              !.result = IF c.state = "resolved" THEN Put(@, id) ELSE @]
OnEvent(c, id) == [c EXCEPT !.out = Put(@, id)]

\* catch (e) { console.warn(...) }: the call goes on with the next relay
RethrowFetchError(st) == "threw"
CatchFetchError(st) == st

\* this.relays after connectToRelays: the urls whose connect succeeded, in
\* the order of the url list
InitRelaysSome ==
    \E up \in SUBSET Relays :
        /\ relays = SelectSeq(RelayUrls, LAMBDA r : r \in up)
        /\ relayStatus = [r \in Relays |-> IF r \in up THEN "open" ELSE "closed"]
        /\ connectedRelays = up
        /\ connIdx = Len(RelayUrls) + 1

InitFetch ==
    /\ InitScoreIdle /\ InitRelaysSome /\ InitFeed /\ InitVotes
    /\ hungRelays = {} /\ InitMineIdle /\ InitFetchIdle

\* updateScoreForPost calls fetchVotesForPost: results = []
FetchVotesForPost ==
    /\ fetchState = "idle"
    /\ fetchState' = "running"
    /\ fetchIdx' = 1
    /\ results' = <<>>
    /\ collectors' = [i \in 1..Len(relays) |-> NoCollector]
    /\ deliveries' = [i \in 1..Len(relays) |-> [before |-> {}, late |-> {}]]
    /\ UNCHANGED <<now, eoseSeen, failedRelays,
                   scoreVars, relayVars, feedVars, voteVars, hungRelays, mineVars>>

\* a pass of the for loop calls collectFromRelay: relay.sub(filters) returns,
\* the handler is registered and the timer armed
CollectFromRelay ==
    /\ fetchState = "running"
    /\ fetchIdx <= Len(relays)
    /\ collectors[fetchIdx].state = "none"
    /\ collectors' = [collectors EXCEPT ![fetchIdx] =
                        [@ EXCEPT !.state = "pending", !.startedAt = now,
                                  !.deadline = Deadline(now), !.subOpen = TRUE]]
    /\ UNCHANGED <<fetchState, fetchIdx, results, now, deliveries, eoseSeen, failedRelays,
                   scoreVars, relayVars, feedVars, voteVars, hungRelays, mineVars>>

\* relay.sub(filters) throws inside the promise executor: the promise is
\* rejected, the await throws and the catch block of fetchVotesForPost runs
CollectSubThrows ==
    /\ fetchState = "running"
    /\ fetchIdx <= Len(relays)
    /\ collectors[fetchIdx].state = "none"
    /\ collectors' = [collectors EXCEPT ![fetchIdx].state = "rejected"]
    /\ failedRelays' = failedRelays \cup {fetchIdx}
    /\ fetchState' = CatchFetchError(fetchState)
    /\ fetchIdx' = fetchIdx + 1
    /\ UNCHANGED <<results, now, deliveries, eoseSeen,
                   scoreVars, relayVars, feedVars, voteVars, hungRelays, mineVars>>

\* the relay sends an event on a subscription that is still open
Deliver(i, id) ==
    /\ i \in DOMAIN collectors
    /\ collectors[i].subOpen
    /\ collectors' = [collectors EXCEPT ![i] = OnEvent(@, id)]
    /\ deliveries' = [deliveries EXCEPT ![i] =
                        IF collectors[i].state = "pending"
                        THEN [@ EXCEPT !.before = @ \cup {id}]
                        ELSE [@ EXCEPT !.late = @ \cup {id}]]
    /\ UNCHANGED <<fetchState, fetchIdx, results, now, eoseSeen, failedRelays,
                   scoreVars, relayVars, feedVars, voteVars, hungRelays, mineVars>>

\* the relay signals end of stored events: no handler is registered for it
Eose(i) ==
    /\ i \in DOMAIN collectors
    /\ collectors[i].state = "pending"
    /\ i \notin eoseSeen
    /\ eoseSeen' = eoseSeen \cup {i}
    /\ UNCHANGED <<fetchState, fetchIdx, results, collectors, now, deliveries, failedRelays,
                   scoreVars, relayVars, feedVars, voteVars, hungRelays, mineVars>>

\* time passes while a timer is armed and not yet due
Tick ==
    /\ \E i \in DOMAIN collectors :
          collectors[i].state = "pending" /\ now < collectors[i].deadline
    /\ now' = now + 1
    /\ UNCHANGED <<fetchState, fetchIdx, results, collectors, deliveries, eoseSeen, failedRelays,
                   scoreVars, relayVars, feedVars, voteVars, hungRelays, mineVars>>

\* the timer callback: try { sub.unsub() } catch {}; resolve(Object.values(out)),
\* then the code after the await: results.push(...events)
TimerFire(unsubThrows) ==
    /\ fetchState = "running"
    /\ fetchIdx \in DOMAIN collectors
    /\ TimerDue(collectors[fetchIdx])
    /\ LET events == ObjectValues(collectors[fetchIdx].out) IN
        /\ collectors' = [collectors EXCEPT ![fetchIdx] =
                            [@ EXCEPT !.state = "resolved", !.resolvedAt = now,
                                      !.result = events, !.subOpen = unsubThrows]]
        /\ results' = results \o events
    /\ fetchIdx' = fetchIdx + 1
    /\ UNCHANGED <<fetchState, now, deliveries, eoseSeen, failedRelays,
                   scoreVars, relayVars, feedVars, voteVars, hungRelays, mineVars>>

\* the for loop is over: return results
FetchReturn ==
    /\ fetchState = "running"
    /\ fetchIdx > Len(relays)
    /\ fetchState' = "done"
    /\ UNCHANGED <<fetchIdx, results, collectors, now, deliveries, eoseSeen, failedRelays,
                   scoreVars, relayVars, feedVars, voteVars, hungRelays, mineVars>>

\* const votes = await this.fetchVotesForPost(eventId)
FetchedVotes == [j \in 1..Len(results) |-> VoteOfId(results[j])]

\* the rest of updateScoreForPost: computeScore(votes) and the score shown
UpdateScoreForPost ==
    /\ fetchState = "done"
    /\ scoreState = "idle"
    /\ voteEvents' = FetchedVotes
    /\ scoreState' = IF computeScore(FetchedVotes).threw THEN "threw" ELSE "returned"
    /\ latestByVoter' = computeScore(FetchedVotes).latest
    /\ score' = computeScore(FetchedVotes).score
    /\ UNCHANGED <<fetchVars, relayVars, feedVars, voteVars, hungRelays, mineVars>>

NextFetch ==
    \/ FetchVotesForPost
    \/ CollectFromRelay
    \/ CollectSubThrows
    \/ \E i \in 1..Len(RelayUrls) : \E id \in VoteIds : Deliver(i, id)
    \/ \E i \in 1..Len(RelayUrls) : Eose(i)
    \/ Tick
    \/ \E unsubThrows \in BOOLEAN : TimerFire(unsubThrows)
    \/ FetchReturn
    \/ UpdateScoreForPost

\* time advances, a due timer fires, and the code after an await runs once
\* its promise has settled
SpecFetch ==
    /\ InitFetch
    /\ [][NextFetch]_vars
    /\ WF_vars(Tick)
    /\ WF_vars(\E unsubThrows \in BOOLEAN : TimerFire(unsubThrows))
    /\ WF_vars(CollectFromRelay \/ CollectSubThrows)
    /\ WF_vars(FetchReturn)

\* ------------------------------------------------------------------------
\* Properties of vote resolution
\* ------------------------------------------------------------------------
SignOfText == [t \in {"1", "-1", "0"} |-> IF t = "1" THEN 1 ELSE IF t = "-1" THEN -1 ELSE 0]

\* the events computeScore reads a sign from: a v tag with value 1, -1 or 0
\* and a voter pubkey
IsVote(ev) ==
    /\ ev.tags # NoTags
    /\ FindTag(ev.tags, "v") # 0
    /\ ev.tags[FindTag(ev.tags, "v")][2] \in DOMAIN SignOfText
    /\ ev.pubkey # NoPubkey

\* the vote shape of the data model: p, e and v tags, v in {+1, -1, 0}
IsValidVote(ev) ==
    /\ IsVote(ev)
    /\ FindTag(ev.tags, "p") # 0
    /\ FindTag(ev.tags, "e") # 0

VoteSign(ev) == SignOfText[ev.tags[FindTag(ev.tags, "v")][2]]

VoteIdx(events) == { i \in 1..Len(events) : IsVote(events[i]) }
VotersOf(events) == { events[i].pubkey : i \in VoteIdx(events) }
VotesBy(events, v) == { i \in VoteIdx(events) : events[i].pubkey = v }
LatestIdx(events, v) ==
    { i \in VotesBy(events, v) :
        \A j \in VotesBy(events, v) : events[j].created_at <= events[i].created_at }
LatestSigns(events, v) == { VoteSign(events[i]) : i \in LatestIdx(events, v) }

RECURSIVE SumOver(_, _)
SumOver(f, S) ==
    IF S = {} THEN 0
    ELSE LET x == CHOOSE y \in S : TRUE IN f[x] + SumOver(f, S \ {x})

Perms(n) == { f \in [1..n -> 1..n] : \A i, j \in 1..n : f[i] = f[j] => i = j }
Permuted(events) == { [i \in 1..Len(events) |-> events[f[i]]] : f \in Perms(Len(events)) }

\* every ordering of the input, and every ordering of the input with one of
\* its events duplicated
Rearrangements(events) ==
    Permuted(events)
    \cup UNION { Permuted(Append(events, events[k])) : k \in 1..Len(events) }

AllValid(events) == \A i \in 1..Len(events) : IsValidVote(events[i])

\* C1: for an input of valid vote events (same-timestamp votes of one voter
\* with different signs included) the score is the same for every ordering
\* of the input and with any event of the input duplicated.
C1_OrderAndDuplicateInvariant ==
    (scoreState = "returned" /\ AllValid(voteEvents))
        => \A other \in Rearrangements(voteEvents) : computeScore(other).score = score

\* C2: latest-timestamp-wins: every distinct voter contributes exactly one
\* term, the sign of a vote of that voter with the greatest created_at.
C2_LatestWins ==
    scoreState = "returned" =>
        LET voters == VotersOf(voteEvents)
            term == [v \in voters |-> latestByVoter[v].sign]
        IN /\ DOMAIN latestByVoter = voters
           /\ \A v \in voters :
                 LET mine == { i \in 1..Len(voteEvents) :
                                 IsVote(voteEvents[i]) /\ voteEvents[i].pubkey = v }
                 IN /\ \E i \in mine :
                         /\ \A j \in mine : voteEvents[j].created_at <= voteEvents[i].created_at
                         /\ term[v] = VoteSign(voteEvents[i])
                         /\ latestByVoter[v].ts = voteEvents[i].created_at
           /\ score = SumOver(term, voters)

\* a voter's -1 at t=20 is processed before the same voter's +1 at t=10 and
\* the voter contributes -1
C2_Witness ==
    /\ scoreState = "returned"
    /\ Len(voteEvents) = 2
    /\ IsVote(voteEvents[1]) /\ IsVote(voteEvents[2])
    /\ voteEvents[1].pubkey = voteEvents[2].pubkey
    /\ voteEvents[1].created_at = 20 /\ VoteSign(voteEvents[1]) = -1
    /\ voteEvents[2].created_at = 10 /\ VoteSign(voteEvents[2]) = 1
    /\ score = -1

WithoutVoter(events, v) == SelectSeq(events, LAMBDA ev : ev.pubkey # v)

\* C3: a voter whose greatest-timestamp vote has sign 0 contributes 0 and
\* the voter's earlier votes are excluded: the score is that of the input
\* without this voter's events.
C3_ClearedVote ==
    scoreState = "returned" =>
        \A v \in VotersOf(voteEvents) :
            LatestSigns(voteEvents, v) = {0} =>
                /\ v \in DOMAIN latestByVoter
                /\ latestByVoter[v].sign = 0
                /\ score = computeScore(WithoutVoter(voteEvents, v)).score

\* a voter cleared a +1 or -1 vote, another voter's vote stands
C3_Witness ==
    /\ scoreState = "returned"
    /\ \E v \in VotersOf(voteEvents) :
          /\ LatestSigns(voteEvents, v) = {0}
          /\ \E i \in VotesBy(voteEvents, v) : VoteSign(voteEvents[i]) # 0
          /\ score # 0

\* C4: an event that lacks a p, e or v tag, has no tags array or has a v
\* value outside {+1, -1, 0} is excluded without an error: the score is that
\* of the input with those events removed.
C4_MalformedExcluded ==
    /\ scoreState # "threw"
    /\ scoreState = "returned" =>
          score = computeScore(SelectSeq(voteEvents, IsValidVote)).score

\* ------------------------------------------------------------------------
\* Properties of the buffered feed
\* ------------------------------------------------------------------------
BufferIds == { buffer[i].id : i \in 1..Len(buffer) }

\* C5: no event id is rendered to the visible feed more than once and no id
\* that has been rendered is in the buffer.
C5_RenderedOnce ==
    /\ \A id \in NoteIds : renderCount[id] <= 1
    /\ \A id \in BufferIds : renderCount[id] = 0

\* C6: an offer of a seen id changes nothing, seenIds keeps every id ever
\* offered, and the pending count is the number of distinct ids first offered
\* since the last flush.
C6_PendingCount ==
    /\ everOffered \subseteq seenIds
    /\ BufferIds = newSinceFlush
    /\ Len(buffer) = Cardinality(newSinceFlush)
    /\ showNew.count = Len(buffer)
    /\ showNew.visible = (buffer # <<>>)

\* before any flush, the one buffered id was offered again and ignored
C6_Witness ==
    /\ Len(buffer) = 1
    /\ feed = <<>>
    /\ lastOffer = [id |-> buffer[1].id, added |-> FALSE]
    /\ showNew.count = 1

Occurrences(events, x) == Cardinality({ i \in 1..Len(events) : events[i] = x })
SameEvents(a, b) ==
    /\ Len(a) = Len(b)
    /\ \A i \in 1..Len(a) : Occurrences(a, a[i]) = Occurrences(b, a[i])
Descending(events) ==
    \A i \in 1..(Len(events) - 1) : events[i].created_at >= events[i + 1].created_at

\* C7: a flush emits every pending event exactly once, newest first, and
\* leaves the buffer empty with pending count 0; a flush of an empty buffer
\* emits nothing.
C7_FlushNewestFirst ==
    [][ /\ (buffer # <<>> /\ buffer' = <<>>) =>
            /\ SameEvents(lastFlush', buffer)
            /\ Descending(lastFlush')
            /\ \A id \in NoteIds :
                  renderCount'[id] = renderCount[id] + Occurrences(buffer, NoteEvent(id))
            /\ showNew'.count = 0
        /\ (buffer = <<>> /\ lastFlush' # lastFlush) =>
            /\ lastFlush' = <<>>
            /\ buffer' = <<>>
            /\ feed' = feed
            /\ renderCount' = renderCount
      ]_vars

\* a flush emitted three events of three different timestamps
C7_Witness ==
    /\ Len(lastFlush) = 3
    /\ lastFlush[1].created_at > lastFlush[2].created_at
    /\ lastFlush[2].created_at > lastFlush[3].created_at
    /\ buffer = <<>>
    /\ showNew.count = 0

\* C8: the flush order does not depend on the arrival order: the same
\* events offered in any other order are flushed in the same sequence.
C8_FlushOrderDeterministic ==
    \A other \in Permuted(lastFlush) : SortBuffer(other) = lastFlush

\* ------------------------------------------------------------------------
\* Properties of voting
\* ------------------------------------------------------------------------
\* the sign a vote publishes after the votes before it on the same target
Toggled(log, i) ==
    LET before == IF i = 1 THEN 0 ELSE log[i - 1].finalSign IN
    IF before = log[i].sign THEN 0 ELSE log[i].sign

\* C9: the published sign is 0 when the ledger's sign for the target equals
\* the requested sign and the requested sign otherwise; completed votes of
\* the same sign on one target alternate sign, 0, sign, and a vote of the
\* other sign publishes that sign.
C9_VoteToggle ==
    /\ [][ \A c \in voteCalls' \ voteCalls :
             c.finalSign = IF CurrentVote(localVotes, c.eid) = c.sign THEN 0 ELSE c.sign ]_vars
    /\ [](\A e \in NoteIds :
             e \notin overlapped =>
                 \A i \in 1..Len(voteLog[e]) : voteLog[e][i].finalSign = Toggled(voteLog[e], i))

\* three completed upvotes of one note, one after the other, published +1, 0, +1
C9_Witness ==
    /\ voteCalls = {}
    /\ \E e \in NoteIds :
          /\ e \notin overlapped
          /\ voteLog[e] = <<[sign |-> 1, finalSign |-> 1], [sign |-> 1, finalSign |-> 0],
                            [sign |-> 1, finalSign |-> 1]>>
          /\ localVotes[e] = 1

\* C10: when the publish fails (no relay accepted the event: every publish
\* rejected, or no relay was open and the event was sent nowhere) sendVote
\* leaves the ledger unchanged.
C10_LedgerUnchangedOnFailure ==
    [][ (Cardinality(voteCalls') < Cardinality(voteCalls) /\ lastAccepted' = {})
            => localVotes' = localVotes ]_vars

\* ------------------------------------------------------------------------
\* Properties of mining
\* ------------------------------------------------------------------------
\* the nonces below maxIters whose id starts with the required prefix
Qualifying == { n \in 0..(mineIn.maxIters - 1) : mineLead[n] >= Nibbles(mineIn.powBits) }
MinOf(S) == CHOOSE n \in S : \A m \in S : n <= m
HasNonceTag(tags) == \E i \in 1..Len(tags) : tags[i][1] = "nonce"

\* C12: with a difficulty below 4 bits mineAndFinish returns, for every
\* maxIters, an event signed from the original payload, with no nonce tag
\* added, after a single signing call.
C12_ZeroDifficultyNoNonce ==
    (mineState = "returned" /\ mineIn.powBits < 4) =>
        /\ mineOut.tags = mineIn.tags
        /\ ~HasNonceTag(mineOut.tags)
        /\ signCalls = 1

\* C13: with a non-empty prefix the nonces are tried in the order 0, 1, 2,
\* ...; the result is the event signed with the smallest qualifying nonce
\* below maxIters, or, when there is none, the event signed from the original
\* payload with exactly the input tags; the call always returns.
C13_SmallestNonce ==
    /\ mineState \in {"idle", "running", "returned"}
    /\ (mineState # "idle" /\ Nibbles(mineIn.powBits) > 0) =>
          /\ tried = [i \in 1..Len(tried) |-> i - 1]
          /\ mineState = "running" => (nonce = Len(tried) /\ nonce <= mineIn.maxIters)
          /\ mineState = "returned" =>
                IF Qualifying # {}
                THEN /\ mineOut.tags = mineIn.tags \o <<NonceTag(MinOf(Qualifying))>>
                     /\ mineOut.lead = mineLead[MinOf(Qualifying)]
                     /\ Len(tried) = MinOf(Qualifying) + 1
                ELSE /\ mineOut.tags = mineIn.tags
                     /\ ~HasNonceTag(mineOut.tags)
                     /\ Len(tried) = mineIn.maxIters

\* difficulty 8 bits: nonce 0 fails, nonces 1 and 2 qualify, nonce 1 is returned
C13_Witness ==
    /\ mineState = "returned"
    /\ mineIn.powBits = 8 /\ mineIn.maxIters = 3
    /\ mineLead[0] = 1 /\ mineLead[1] = 2 /\ mineLead[2] = 2
    /\ mineOut.tags = mineIn.tags \o <<NonceTag(1)>>
    /\ tried = <<0, 1>>

\* ------------------------------------------------------------------------
\* Properties of publishing
\* ------------------------------------------------------------------------
\* C11: when no relay accepts the event (every publish rejects, or no relay
\* is open and the event is sent nowhere) sendVote reports 'Vote failed' and
\* publishNote 'Failed to publish', and neither reports success; when some
\* relay accepts, the failure is not reported.
C11_TotalFailureSurfaced ==
    [][ /\ \A c \in voteCalls \ voteCalls' :
              /\ lastAccepted' = {} => toast' = "Vote failed"
              /\ lastAccepted' # {} => toast' # "Vote failed"
        /\ \A c \in noteCalls \ noteCalls' :
              c.sent = {} => toast' = "Failed to publish"
      ]_vars

\* C17: with a relay whose publish never settles, every sendVote still
\* completes and the publish button is enabled again after every publishNote.
C17_PublicationNotBlocked ==
    /\ \A n \in 1..MaxVoteCalls :
          (\E c \in voteCalls : c.n = n) ~> ~(\E c \in voteCalls : c.n = n)
    /\ publishDisabled ~> ~publishDisabled

\* C19: votes on one target are serialized also when they overlap: every
\* vote publishes the toggle of the vote issued before it on the same
\* target, and once all have completed the ledger holds the last published
\* sign.
C19_ConcurrentVotesSerialized ==
    \A e \in NoteIds :
        /\ \A i \in 1..Len(voteLog[e]) : voteLog[e][i].finalSign = Toggled(voteLog[e], i)
        /\ (voteLog[e] # <<>> /\ ~\E c \in voteCalls : c.eid = e)
              => localVotes[e] = voteLog[e][Len(voteLog[e])].finalSign

\* ------------------------------------------------------------------------
\* Properties of vote collection
\* ------------------------------------------------------------------------
Collecting == 1..Len(RelayUrls)
IsState(i, st) == i \in DOMAIN collectors /\ collectors[i].state = st

\* C14: a collection resolves only in the step in which its timer fires,
\* TimeoutTicks after it began, and its result never changes afterwards; it
\* does resolve, also when end of stored events was signalled and when
\* unsubscribe throws; a relay that sent nothing yields the empty result.
C14_ResolvesAtTimeout ==
    /\ [][ \A i \in Collecting :
             /\ (~IsState(i, "resolved") /\ IsState(i, "resolved")') =>
                   /\ IsState(i, "pending")
                   /\ now = collectors[i].startedAt + TimeoutTicks
                   /\ collectors'[i].resolvedAt = now
             /\ IsState(i, "resolved") =>
                   /\ IsState(i, "resolved")'
                   /\ collectors'[i].result = collectors[i].result
                   /\ collectors'[i].resolvedAt = collectors[i].resolvedAt ]_vars
    /\ [](\A i \in Collecting :
             /\ IsState(i, "pending") => now <= collectors[i].startedAt + TimeoutTicks
             /\ IsState(i, "resolved") =>
                   /\ collectors[i].resolvedAt = collectors[i].startedAt + TimeoutTicks
                   /\ deliveries[i].before = {} => collectors[i].result = <<>>)
    /\ \A i \in Collecting : IsState(i, "pending") ~> IsState(i, "resolved")

\* a relay that sent no event signalled end of stored events, its
\* unsubscribe threw, and the collection resolved empty at the timeout
C14_Witness ==
    \E i \in Collecting :
        /\ IsState(i, "resolved")
        /\ i \in eoseSeen
        /\ collectors[i].subOpen
        /\ collectors[i].result = <<>>
        /\ collectors[i].resolvedAt = collectors[i].startedAt + TimeoutTicks

\* C15: the result of a collection holds exactly the ids delivered before
\* its timer fired, each once; the merged result and the input of
\* computeScore hold exactly those ids, so an event delivered after the
\* timer fired is in neither.
C15_OnlyEventsBeforeTimeout ==
    /\ \A i \in Collecting :
          IsState(i, "resolved") =>
              /\ Range(collectors[i].result) = deliveries[i].before
              /\ Len(collectors[i].result) = Cardinality(deliveries[i].before)
    /\ fetchState = "done" =>
          Range(results) = UNION { deliveries[i].before : i \in DOMAIN collectors }
    /\ scoreState = "returned" =>
          /\ fetchState = "done"
          /\ Len(voteEvents) = Len(results)
          /\ \A j \in 1..Len(results) : voteEvents[j] = VoteOfId(results[j])
          /\ score = computeScore(voteEvents).score

\* unsubscribe threw, the relay went on to send an id it had not sent before
\* the timeout, and the score was computed from the other id alone
C15_Witness ==
    /\ scoreState = "returned"
    /\ results # <<>>
    /\ \E i \in DOMAIN collectors :
          /\ collectors[i].subOpen
          /\ \E id \in deliveries[i].late :
                /\ id \notin Range(results)
                /\ id \in Range(collectors[i].out)
    /\ score # 0

RECURSIVE Concat(_, _)
Concat(f, n) == IF n = 0 THEN <<>> ELSE Concat(f, n - 1) \o f[n]

\* C16: a relay whose subscription throws contributes nothing and the error
\* does not leave fetchVotesForPost: the call goes on and returns the results
\* of all other relays, those before and those after the failing one.
C16_RelayFailureIsolated ==
    /\ fetchState \in {"idle", "running", "done"}
    /\ \A i \in failedRelays :
          /\ collectors[i].result = <<>>
          /\ deliveries[i].before = {}
    /\ fetchState = "done" =>
          /\ \A i \in DOMAIN collectors :
                i \notin failedRelays =>
                    /\ collectors[i].state = "resolved"
                    /\ deliveries[i].before \subseteq Range(results)
          /\ results = Concat([i \in DOMAIN collectors |-> collectors[i].result],
                              Len(relays))

\* the subscription to the first relay threw and the votes of the second
\* relay were returned
C16_Witness ==
    /\ fetchState = "done"
    /\ Len(relays) = 2
    /\ failedRelays = {1}
    /\ deliveries[2].before = VoteIds
    /\ Range(results) = VoteIds

\* C18: a call of fetchVotesForPost completes, and when it has completed
\* the collection from every relay of the list has timed out or failed.
C18_FetchTerminates ==
    /\ (fetchState = "running") ~> (fetchState = "done")
    /\ [](fetchState = "done" =>
             /\ DOMAIN collectors = 1..Len(relays)
             /\ \A i \in 1..Len(relays) :
                   collectors[i].state \in {"resolved", "rejected"})

\* the call completed with one relay that kept sending after the timeout
\* and one that sent nothing
C18_Witness ==
    /\ fetchState = "done"
    /\ Len(relays) = 2
    /\ \E i, j \in 1..2 :
          /\ collectors[i].state = "resolved"
          /\ deliveries[i].before # {} /\ deliveries[i].late # {}
          /\ collectors[j].state = "resolved"
          /\ deliveries[j].before = {} /\ deliveries[j].late = {}

\* C20: the merged result handed to vote resolution holds each event id at
\* most once, also when several relays return the same event.
C20_MergedDeduplicated ==
    fetchState = "done" =>
        /\ \A j, k \in 1..Len(results) : results[j] = results[k] => j = k
        /\ \A j, k \in 1..Len(voteEvents) : j # k => results[j] # results[k]

\* ------------------------------------------------------------------------
\* Properties of the feed after a flush
\* ------------------------------------------------------------------------
\* the created_at of the first n notes of a feed, from the top
TopTimes(f, n) == [i \in 1..n |-> CreatedAt(f[i])]

\* C21: after a flush the events of the batch are at the top of the feed in
\* descending created_at order, the newest event of the batch first.
C21_FeedNewestFirst ==
    [][ (buffer # <<>> /\ buffer' = <<>>) =>
            LET n == Len(buffer) IN
            /\ Len(feed') >= n
            /\ { feed'[i] : i \in 1..n } = BufferIds
            /\ \A i \in 1..(n - 1) : TopTimes(feed', n)[i] >= TopTimes(feed', n)[i + 1]
            /\ \A id \in BufferIds : CreatedAt(feed'[1]) >= CreatedAt(id)
      ]_vars

\* ------------------------------------------------------------------------
\* Order independence of vote resolution without timestamp ties
\* ------------------------------------------------------------------------
\* no voter has two counted votes with the same created_at
NoTies(events) ==
    \A i, j \in VoteIdx(events) :
        (i # j /\ events[i].pubkey = events[j].pubkey)
            => events[i].created_at # events[j].created_at

\* the sign of the one vote of v with the greatest created_at
UniqueLatestSign(events, v) ==
    VoteSign(events[CHOOSE i \in LatestIdx(events, v) : TRUE])

\* C22: for an input in which no voter has two votes with the same
\* created_at, the score is the sum over the voters of the sign of the
\* voter's one vote with the greatest created_at, a value that does not
\* depend on the order of the input; for inputs of up to three events every
\* ordering of the input, and every ordering with one of its events
\* duplicated, is computed and returns the same score.
C22_OrderIndependentWithoutTies ==
    (scoreState = "returned" /\ NoTies(voteEvents)) =>
        /\ \A v \in VotersOf(voteEvents) : Cardinality(LatestIdx(voteEvents, v)) = 1
        /\ score = SumOver([v \in VotersOf(voteEvents) |-> UniqueLatestSign(voteEvents, v)],
                           VotersOf(voteEvents))
        /\ Len(voteEvents) <= 3 =>
              \A other \in Rearrangements(voteEvents) :
                  /\ ~computeScore(other).threw
                  /\ computeScore(other).score = score

\* a voter's -1 at t=20 comes before the same voter's +1 at t=10, another
\* voter's +1 follows, and the score is 0
C22_Witness ==
    /\ scoreState = "returned"
    /\ NoTies(voteEvents)
    /\ Len(voteEvents) = 3
    /\ \A i \in 1..3 : IsVote(voteEvents[i])
    /\ voteEvents[1].pubkey = voteEvents[2].pubkey
    /\ voteEvents[3].pubkey # voteEvents[1].pubkey
    /\ voteEvents[1].created_at = 20 /\ VoteSign(voteEvents[1]) = -1
    /\ voteEvents[2].created_at = 10 /\ VoteSign(voteEvents[2]) = 1
    /\ VoteSign(voteEvents[3]) = 1
    /\ score = 0

====
